---- MODULE Spec2Model ----
(***************************************************************************)
(* EcoTrack: the Streamlit dashboard (dashboard.py) and the canned         *)
(* aggregation script (aggregation_queries.py) over the MongoDB store.     *)
(*                                                                         *)
(* Readings carry integer kWh values.  Sums, means and z-scores are exact  *)
(* (means are kept as fractions, z > 2.5 is compared in squared form).     *)
(* A timestamp string is kept as the triple (day, second of day, suffix)   *)
(* whose tuple order is the byte order of the ISO-8601 string.             *)
(***************************************************************************)
EXTENDS Integers, Sequences, FiniteSets, TLC

VARIABLES
    telemetry,          \* db.telemetry: the stored readings, in natural order
    PROPHET_AVAILABLE,  \* dashboard.py: whether "from prophet import Prophet" succeeded
    chosen_site_id,     \* sidebar: site_map.get(chosen_site_name, "All")
    start_date,         \* sidebar: st.date_input("Start date")
    end_date,           \* sidebar: st.date_input("End date")
    checkbox,           \* sidebar: state of the "Use Prophet" checkbox widget
    use_prophet,        \* script variable use_prophet of the last run
    days_out,           \* forecast panel: st.number_input("Forecast horizon (days)")
    rendered,           \* whether the script has run in this session
    df,                 \* the frame telemetry_df returned in the last run
    total_kwh,          \* KPI: calc_total_kwh(df)
    emissions,          \* KPI: calc_emissions_kg(total_kwh)
    avg_kwh,            \* KPI: the "Average reading" value
    daily,              \* daily_aggregates(df)
    asset_df,           \* asset_aggregates(df)
    top10,              \* asset_df.head(10), or <<>> when asset_df is empty
    anomaly_records,    \* the rows of the anomaly table
    forecast,           \* what the forecast panel did in the last run
    indexes,            \* db.service_providers: its indexes besides _id_
    pc,                 \* aggregation_queries.py: the section that runs next
    result_total,       \* aggregation_queries.py: result_total
    result_daily,       \* aggregation_queries.py: result_daily
    result_emission,    \* aggregation_queries.py: result_emission
    printed,            \* aggregation_queries.py: what section 7 printed
    msg,                \* sidebar: the message st.success showed in the last run, or ""
    presses,            \* number of presses of the "Create 2dsphere index" button
    created             \* number of coll.create_index calls made

vars == <<telemetry, PROPHET_AVAILABLE, chosen_site_id, start_date, end_date,
          checkbox, use_prophet, days_out, rendered, df, total_kwh, emissions,
          avg_kwh, daily, asset_df, top10, anomaly_records, forecast, indexes, pc,
          result_total, result_daily, result_emission, printed, msg, presses, created>>

-----------------------------------------------------------------------------
(* Bounds of the model *)

\* longest telemetry collection of the rollup runs
MaxRows == 3
\* days on which readings are stored: 1..MaxDay; "today" is MaxDay
MaxDay == 2
\* largest forecast horizon tried (the widget allows 1..90)
MaxHorizon == 2
\* most presses of the index button in one session
MaxPresses == 3

-----------------------------------------------------------------------------
(* The store *)

ELECTRICITY == "electricity_kWh"

\* the "All" entry of the site selector; the script turns it into site_id=None
ALL == 0

\* site ids of db.sites (site 3 is a site that owns no asset)
Sites == {1, 2, 3}

\* db.assets: asset_id and owning site_id
Assets == { [asset_id |-> 101, site_id |-> 1],
            [asset_id |-> 102, site_id |-> 1],
            [asset_id |-> 201, site_id |-> 2] }

\* the second "T00:00:00" of a day, as datetime.min.time() gives it
Midnight == 0
\* the second "T23:59:59" of a day, as strftime renders datetime.max.time()
LastSecond == 86399

\* what follows "HH:MM:SS" in a stored timestamp: nothing, a fraction of a
\* second, or text that is no time
Plain == ""
Fraction == ".500000"
Junk == "x"

\* byte order of the suffixes: "" < ".500000" < "x"
SfxRank(x) == IF x = Plain THEN 0 ELSE IF x = Fraction THEN 1 ELSE 2

Timestamp(d, s, x) == [day |-> d, tod |-> s, sfx |-> x]

\* byte order of two timestamp strings, as MongoDB's $gte / $lte compare strings
StrLeq(a, b) ==
    \/ a.day < b.day
    \/ a.day = b.day /\ a.tod < b.tod
    \/ a.day = b.day /\ a.tod = b.tod /\ SfxRank(a.sfx) <= SfxRank(b.sfx)

\* datetime.strftime("%Y-%m-%dT%H:%M:%S"): the microseconds are not rendered
strftime(dt) == Timestamp(dt.day, dt.tod, Plain)

\* datetime.combine(date, time)
combine(d, s, us) == [day |-> d, tod |-> s, micro |-> us]

NaT == [nat |-> TRUE, date |-> 0]

\* pd.to_datetime(..., errors="coerce") of one timestamp string
to_datetime(t) == IF t.sfx = Junk THEN NaT ELSE [nat |-> FALSE, date |-> t.day]

-----------------------------------------------------------------------------
(* Sequence helpers *)

RECURSIVE SumValues(_)
\* Series.sum() of the value column
SumValues(s) == IF s = <<>> THEN 0 ELSE s[1].value + SumValues(Tail(s))

RECURSIVE SortAsc(_)
\* the keys of a groupby, which pandas returns in ascending order
SortAsc(S) ==
    IF S = {} THEN <<>>
    ELSE LET m == CHOOSE x \in S : \A y \in S : x <= y
         IN  <<m>> \o SortAsc(S \ {m})

Min(a, b) == IF a <= b THEN a ELSE b
Max(a, b) == IF a >= b THEN a ELSE b

-----------------------------------------------------------------------------
(* dashboard.py: utility functions *)

LOCATION_2DSPHERE == [field |-> "location", kind |-> "2dsphere"]

\* create_2dsphere_index: any index with a key on "location" counts as existing
create_2dsphere_index(ix) ==
    IF \E i \in ix : i.field = "location"
    THEN [indexes |-> ix, msg |-> "2dsphere index already exists", created |-> 0]
    ELSE [indexes |-> ix \cup {LOCATION_2DSPHERE}, msg |-> "2dsphere index created",
          created |-> 1]

\* the query q that telemetry_df builds, as a predicate on a stored reading
QueryMatches(r, site_id, start, end) ==
    /\ IF site_id # ALL
       THEN LET asset_ids == {a.asset_id : a \in {b \in Assets : b.site_id = site_id}}
            IN  IF asset_ids # {} THEN r.asset_id \in asset_ids
                ELSE FALSE   \* {"$exists": False}: every reading has an asset_id
       ELSE TRUE
    /\ StrLeq(strftime(start), r.timestamp)
    /\ StrLeq(r.timestamp, strftime(end))

WithTs(r) == [timestamp |-> r.timestamp, asset_id |-> r.asset_id,
              value_type |-> r.value_type, value |-> r.value,
              ts |-> to_datetime(r.timestamp)]

telemetry_df(coll, site_id, start, end) ==
    LET rows == SelectSeq(coll, LAMBDA r : QueryMatches(r, site_id, start, end))
    IN  [i \in 1..Len(rows) |-> WithTs(rows[i])]

\* df[df["value_type"] == "electricity_kWh"]
ElectricityRows(d) == SelectSeq(d, LAMBDA r : r.value_type = ELECTRICITY)

\* calc_total_kwh without the value_type filter
calc_total_kwh_AllTypes(d) ==
    IF d = <<>> THEN 0 ELSE SumValues(d)

calc_total_kwh(d) ==
    IF d = <<>> THEN 0 ELSE SumValues(ElectricityRows(d))

\* Series.mean(): sum / count, NaN for an empty series
SeriesMean(s) ==
    IF s = <<>> THEN [nan |-> TRUE, num |-> 0, den |-> 1]
    ELSE [nan |-> FALSE, num |-> SumValues(s), den |-> Len(s)]

\* avg_kwh of the script: 0.0 unless df is non-empty
AvgKwh(d) ==
    IF d = <<>> THEN [nan |-> FALSE, num |-> 0, den |-> 1]
    ELSE SeriesMean(ElectricityRows(d))

RECURSIVE InsertByDate(_, _)
InsertByDate(x, s) ==
    IF s = <<>> THEN <<x>>
    ELSE IF s[Len(s)].date <= x.date THEN Append(s, x)
    ELSE Append(InsertByDate(x, SubSeq(s, 1, Len(s) - 1)), s[Len(s)])

RECURSIVE SortByDate(_)
\* agg.sort_values("date")
SortByDate(s) ==
    IF s = <<>> THEN <<>>
    ELSE InsertByDate(s[Len(s)], SortByDate(SubSeq(s, 1, Len(s) - 1)))

daily_aggregates(d) ==
    IF d = <<>> THEN <<>>
    ELSE LET e == ElectricityRows(d)
             \* groupby("date") leaves out the rows whose key is missing (NaT)
             keys == SortAsc({e[i].ts.date : i \in {j \in 1..Len(e) : ~e[j].ts.nat}})
             agg == [k \in 1..Len(keys) |->
                       [date |-> keys[k],
                        daily_kWh |-> SumValues(SelectSeq(e, LAMBDA r :
                                          ~r.ts.nat /\ r.ts.date = keys[k]))]]
         IN  SortByDate(agg)

RECURSIVE InsertByTotalDesc(_, _)
InsertByTotalDesc(x, s) ==
    IF s = <<>> THEN <<x>>
    ELSE IF s[Len(s)].total_kWh >= x.total_kWh THEN Append(s, x)
    ELSE Append(InsertByTotalDesc(x, SubSeq(s, 1, Len(s) - 1)), s[Len(s)])

\* asset_aggregates without its sort_values call
SortByTotalDesc_Skipped(s) == s

RECURSIVE SortByTotalDesc(_)
\* agg.sort_values("total_kWh", ascending=False)
SortByTotalDesc(s) ==
    IF s = <<>> THEN <<>>
    ELSE InsertByTotalDesc(s[Len(s)], SortByTotalDesc(SubSeq(s, 1, Len(s) - 1)))

asset_aggregates(d) ==
    IF d = <<>> THEN <<>>
    ELSE LET e == ElectricityRows(d)
             keys == SortAsc({e[i].asset_id : i \in 1..Len(e)})
             agg == [k \in 1..Len(keys) |->
                       [asset_id |-> keys[k],
                        total_kWh |-> SumValues(SelectSeq(e, LAMBDA r :
                                          r.asset_id = keys[k]))]]
         IN  SortByTotalDesc(agg)

-----------------------------------------------------------------------------
(* IEEE-754 binary64 arithmetic on the emission figures.                   *)
(* 0.82 is the double 7385903388887613 / 2^53, so every product of an      *)
(* integer kWh value with it, and every sum of such products, is a whole   *)
(* number of units of 2^-53.  A figure is that whole number, written in    *)
(* five limbs of 15 bits, least significant first.                         *)

LimbBase == 32768
LimbBits == 15
MantissaBits == 53

\* the double nearest to 0.82, in units of 2^-53
FACTOR == <<2621, 18350, 30146, 209, 0>>

BigZero == <<0, 0, 0, 0, 0>>

RECURSIVE MulCarry(_, _, _, _)
MulCarry(k, x, i, carry) ==
    IF i > Len(x) THEN <<>>
    ELSE LET p == k * x[i] + carry
         IN  <<p % LimbBase>> \o MulCarry(k, x, i + 1, p \div LimbBase)

\* the exact product of a small natural number and a figure
BigMulSmall(k, x) == MulCarry(k, x, 1, 0)

RECURSIVE AddCarry(_, _, _, _)
AddCarry(x, y, i, carry) ==
    IF i > Len(x) THEN <<>>
    ELSE LET p == x[i] + y[i] + carry
         IN  <<p % LimbBase>> \o AddCarry(x, y, i + 1, p \div LimbBase)

\* the exact sum of two figures
BigAdd(x, y) == AddCarry(x, y, 1, 0)

RECURSIVE BigLess(_, _, _)
\* x < y, compared from limb i down
BigLess(x, y, i) ==
    IF i = 0 THEN FALSE
    ELSE IF x[i] # y[i] THEN x[i] < y[i]
    ELSE BigLess(x, y, i - 1)

BigLeq(x, y) == x = y \/ BigLess(x, y, Len(x))

RECURSIVE Pow2(_)
Pow2(n) == IF n = 0 THEN 1 ELSE 2 * Pow2(n - 1)

RECURSIVE BitsOf(_)
\* number of binary digits of a natural number
BitsOf(n) == IF n = 0 THEN 0 ELSE 1 + BitsOf(n \div 2)

\* number of binary digits of a figure
BitLength(x) ==
    LET top == {i \in 1..Len(x) : x[i] # 0}
    IN  IF top = {} THEN 0
        ELSE LET h == CHOOSE i \in top : \A j \in top : j <= i
             IN  (h - 1) * LimbBits + BitsOf(x[h])

\* round to nearest, ties to even, to 53 significant bits: the result of one
\* binary64 operation whose exact result is x (x below 2^67)
RoundToDouble(x) ==
    LET s == BitLength(x) - MantissaBits
    IN  IF s <= 0 THEN x
        ELSE LET unit == Pow2(s)
                 rest == x[1] % unit
                 odd == (x[1] \div unit) % 2 = 1
                 down == [x EXCEPT ![1] = x[1] - rest]
                 up == BigAdd(down, [BigZero EXCEPT ![1] = unit])
             IN  IF 2 * rest > unit \/ (2 * rest = unit /\ odd) THEN up ELSE down

\* the binary64 product of an integer-valued double and a double
fmul(k, x) == RoundToDouble(BigMulSmall(k, x))

\* the binary64 sum of two doubles
fadd(x, y) == RoundToDouble(BigAdd(x, y))

\* total_kwh * factor with factor=0.82
calc_emissions_kg(total) == fmul(total, FACTOR)

-----------------------------------------------------------------------------
(* dashboard.py: the anomaly table *)

RECURSIVE SumSquares(_)
SumSquares(s) ==
    IF s = <<>> THEN 0 ELSE s[1].value * s[1].value + SumSquares(Tail(s))

\* the z-score threshold 2.5, as the fraction Z_NUM / Z_DEN
Z_NUM == 5
Z_DEN == 2

\* the mask with the sample deviation arr.std(ddof=1) in place of ddof=0
ZMask_SampleStd(v, g) ==
    LET n == Len(g)
        S == SumValues(g)
        varN == n * SumSquares(g) - S * S
        dev == n * v - S
    IN  IF varN > 0
        THEN dev > 0 /\ Z_DEN * Z_DEN * dev * dev * (n - 1) > Z_NUM * Z_NUM * varN * n
        ELSE Z_DEN * dev > Z_NUM * n

\* (value - mean) / std > 2.5 for the value v of the group g, where
\* mean = S / n and arr.std(ddof=0) = sqrt(n * Q - S * S) / n
ZMask(v, g) ==
    LET n == Len(g)
        S == SumValues(g)
        varN == n * SumSquares(g) - S * S
        dev == n * v - S
    IN  IF varN > 0
        THEN dev > 0 /\ Z_DEN * Z_DEN * dev * dev > Z_NUM * Z_NUM * varN
        ELSE Z_DEN * dev > Z_NUM * n     \* std replaced by 1.0

AnomalyOf(r) == [asset_id |-> r.asset_id, timestamp |-> r.timestamp, value |-> r.value]

\* the records one asset's group appends
GroupAnomalies(g) ==
    IF Len(g) < 2 THEN <<>>
    ELSE LET hit == SelectSeq(g, LAMBDA r : ZMask(r.value, g))
         IN  [i \in 1..Len(hit) |-> AnomalyOf(hit[i])]

RECURSIVE ScanGroups(_, _)
ScanGroups(z_df, keys) ==
    IF keys = <<>> THEN <<>>
    ELSE GroupAnomalies(SelectSeq(z_df, LAMBDA r : r.asset_id = keys[1]))
         \o ScanGroups(z_df, Tail(keys))

AnomalyScan(d) ==
    IF d = <<>> THEN <<>>
    ELSE LET z_df == ElectricityRows(d)
         IN  ScanGroups(z_df, SortAsc({z_df[i].asset_id : i \in 1..Len(z_df)}))

-----------------------------------------------------------------------------
(* dashboard.py: forecasting *)

\* daily.set_index("date")["daily_kWh"], then sort_index()
SeriesOf(dl) ==
    SortByDate([i \in 1..Len(dl) |-> [date |-> dl[i].date, value |-> dl[i].daily_kWh]])

\* the rolling mean with the window ignored: the mean of everything so far
rolling_mean_Expanding(series, window, min_periods) ==
    [i \in 1..Len(series) |-> SeriesMean(SubSeq(series, 1, i))]

\* series.rolling(window, min_periods).mean()
rolling_mean(series, window, min_periods) ==
    [i \in 1..Len(series) |->
        LET w == SubSeq(series, Max(1, i - window + 1), i)
        IN  IF Len(w) < min_periods THEN [nan |-> TRUE, num |-> 0, den |-> 1]
            ELSE SeriesMean(w)]

simple_moving_average_forecast(series, horizon, window) ==
    IF series = <<>> THEN <<>>
    ELSE LET ma == rolling_mean(series, window, 1)
             last == ma[Len(ma)]
         IN  [i \in 1..horizon |-> [date |-> series[Len(series)].date + i, yhat |-> last]]

\* how a call of prophet_forecast can end: it raises when Prophet is missing;
\* otherwise the library decides
ProphetOutcomes(available) == IF available THEN {"ok", "raise"} ELSE {"raise"}

\* the window of the moving average the panel asks for
MA_WINDOW == 3

\* the panel with "if PROPHET_AVAILABLE:" in place of
\* "if PROPHET_AVAILABLE and use_prophet:"
ForecastPanel_IgnoresCheckbox(dl, available, selected, horizon, outcome) ==
    IF dl = <<>> THEN [method |-> "none", called_prophet |-> FALSE, error |-> FALSE, points |-> <<>>]
    ELSE IF available
    THEN [method |-> "prophet", called_prophet |-> TRUE, error |-> outcome # "ok", points |-> <<>>]
    ELSE [method |-> "ma", called_prophet |-> FALSE, error |-> FALSE,
          points |-> simple_moving_average_forecast(SeriesOf(dl), horizon, 3)]

\* the "Forecast" panel
ForecastPanel(dl, available, selected, horizon, outcome) ==
    IF dl = <<>> THEN [method |-> "none", called_prophet |-> FALSE, error |-> FALSE, points |-> <<>>]
    ELSE IF available /\ selected
    THEN IF outcome = "ok"
         THEN [method |-> "prophet", called_prophet |-> TRUE, error |-> FALSE, points |-> <<>>]
         ELSE [method |-> "prophet", called_prophet |-> TRUE, error |-> TRUE, points |-> <<>>]
    ELSE [method |-> "ma", called_prophet |-> FALSE, error |-> FALSE,
          points |-> simple_moving_average_forecast(SeriesOf(dl), horizon, MA_WINDOW)]

-----------------------------------------------------------------------------
(* dashboard.py: one run of the script *)

\* asset_df.head(10)
TOP_N == 10
head(s, n) == SubSeq(s, 1, Min(n, Len(s)))

\* use_prophet: False unless Prophet was imported, then the checkbox
UseProphet(available, box) == IF available THEN box ELSE FALSE

\* everything one run of the script computes from the store and the widgets
Outputs(coll, available, site, sd, ed, box, horizon, outcome) ==
    LET d == telemetry_df(coll, site, combine(sd, Midnight, 0),
                          combine(ed, LastSecond, 999999))
        t == calc_total_kwh(d)
        dl == daily_aggregates(d)
        a == asset_aggregates(d)
    IN  [df |-> d,
         total_kwh |-> t,
         emissions |-> calc_emissions_kg(t),
         avg_kwh |-> AvgKwh(d),
         daily |-> dl,
         asset_df |-> a,
         top10 |-> head(a, TOP_N),
         anomaly_records |-> AnomalyScan(d),
         use_prophet |-> UseProphet(available, box),
         forecast |-> ForecastPanel(dl, available, UseProphet(available, box),
                                    horizon, outcome)]

-----------------------------------------------------------------------------
(* aggregation_queries.py *)

\* {"$match": {"value_type": "electricity_kWh"}}
MatchElectricity(coll) == SelectSeq(coll, LAMBDA r : r.value_type = ELECTRICITY)

\* $group with _id None returns no document when nothing matched
pipeline_total(coll) ==
    LET m == MatchElectricity(coll)
    IN  IF m = <<>> THEN <<>> ELSE <<[total_kWh |-> SumValues(m)]>>

\* the group key {"$substr": ["$timestamp", 0, 10]} is the date part of the string
pipeline_daily(coll) ==
    LET m == MatchElectricity(coll)
        keys == SortAsc({m[i].timestamp.day : i \in 1..Len(m)})
    IN  [k \in 1..Len(keys) |->
            [id |-> keys[k],
             daily_kWh |-> SumValues(SelectSeq(m, LAMBDA r : r.timestamp.day = keys[k]))]]

\* how the server adds the doubles of a $sum: one after the other, each sum
\* rounded, or compensated, the exact sum rounded once
Summations == {"sequential", "compensated"}

RECURSIVE SumProducts(_, _, _)
\* {"$sum": {"$multiply": ["$value", 0.82]}}: each product is a double
SumProducts(m, acc, summation) ==
    IF m = <<>> THEN acc
    ELSE LET p == fmul(m[1].value, FACTOR)
         IN  SumProducts(Tail(m),
                         IF summation = "sequential" THEN fadd(acc, p) ELSE BigAdd(acc, p),
                         summation)

\* the pipeline without its $match stage
pipeline_emission_AllTypes(coll, summation) ==
    IF coll = <<>> THEN <<>>
    ELSE <<[total_kgCO2 |-> RoundToDouble(SumProducts(coll, BigZero, summation))]>>

pipeline_emission(coll, summation) ==
    LET m == MatchElectricity(coll)
    IN  IF m = <<>> THEN <<>>
        ELSE <<[total_kgCO2 |-> RoundToDouble(SumProducts(m, BigZero, summation))]>>

\* $geoNear with a GeoJSON point needs a 2dsphere index on the location field
GeoNearFails(ix) == ~\E i \in ix : i.field = "location" /\ i.kind = "2dsphere"

GEO_MESSAGE == "GeoNear requires 2dsphere index!"

\* section 7 without its try / except: the failure ends the script
pipeline_geo_NoTry(ix) ==
    IF GeoNearFails(ix)
    THEN [pc |-> "crashed", printed |-> ""]
    ELSE [pc |-> "done", printed |-> "result_geo"]

\* section 7: the aggregate call inside try / except Exception
pipeline_geo(ix) ==
    IF GeoNearFails(ix)
    THEN [pc |-> "done", printed |-> GEO_MESSAGE]
    ELSE [pc |-> "done", printed |-> "result_geo"]

-----------------------------------------------------------------------------
(* The dashboard session: every interaction reruns the script *)

\* datetime.now(), as a day number
Today == MaxDay
\* default_start = today - timedelta(days=14)
DEFAULT_DAYS == 14
\* st.number_input(..., value=14)
DEFAULT_HORIZON == 14

\* one run of the script below the sidebar's index button
Script(site, sd, ed, box, horizon) ==
    \E outcome \in ProphetOutcomes(PROPHET_AVAILABLE) :
      \E o \in {Outputs(telemetry, PROPHET_AVAILABLE, site, sd, ed, box, horizon, outcome)} :
            /\ chosen_site_id' = site
            /\ start_date' = sd
            /\ end_date' = ed
            /\ checkbox' = box
            /\ days_out' = horizon
            /\ rendered' = TRUE
            /\ df' = o.df
            /\ total_kwh' = o.total_kwh
            /\ emissions' = o.emissions
            /\ avg_kwh' = o.avg_kwh
            /\ daily' = o.daily
            /\ asset_df' = o.asset_df
            /\ top10' = o.top10
            /\ anomaly_records' = o.anomaly_records
            /\ use_prophet' = o.use_prophet
            /\ forecast' = o.forecast
            /\ UNCHANGED <<telemetry, PROPHET_AVAILABLE, pc, result_total,
                           result_daily, result_emission, printed>>

\* a run in which st.button returns False: no message is shown
Run(site, sd, ed, box, horizon) ==
    /\ Script(site, sd, ed, box, horizon)
    /\ msg' = ""
    /\ UNCHANGED <<indexes, presses, created>>

\* the first run of a session, or a rerun that changes no widget
Rerun == Run(chosen_site_id, start_date, end_date, checkbox, days_out)

SelectSite(s) ==
    /\ rendered
    /\ s # chosen_site_id
    /\ Run(s, start_date, end_date, checkbox, days_out)

SetStartDate(d) ==
    /\ rendered
    /\ d # start_date
    /\ Run(chosen_site_id, d, end_date, checkbox, days_out)

SetEndDate(d) ==
    /\ rendered
    /\ d # end_date
    /\ Run(chosen_site_id, start_date, d, checkbox, days_out)

\* the checkbox is drawn only when Prophet was imported
ToggleProphet ==
    /\ rendered
    /\ PROPHET_AVAILABLE
    /\ Run(chosen_site_id, start_date, end_date, ~checkbox, days_out)

\* the horizon input is drawn only when there is a daily series
SetHorizon(n) ==
    /\ rendered
    /\ daily # <<>>
    /\ n # days_out
    /\ Run(chosen_site_id, start_date, end_date, checkbox, n)

\* pressing the button reruns the script; st.button returns True in that run
PressCreateIndex ==
    /\ rendered
    /\ presses < MaxPresses
    /\ \E r \in {create_2dsphere_index(indexes)} :
          /\ indexes' = r.indexes
          /\ msg' = r.msg
          /\ created' = created + r.created
    /\ presses' = presses + 1
    /\ Script(chosen_site_id, start_date, end_date, checkbox, days_out)

\* the store, the import of Prophet and the aggregation script's variables
Store(coll, available, ix, at) ==
    /\ telemetry = coll
    /\ PROPHET_AVAILABLE = available
    /\ indexes = ix
    /\ pc = at
    /\ result_total = <<>>
    /\ result_daily = <<>>
    /\ result_emission = <<>>
    /\ printed = ""
    /\ msg = ""
    /\ presses = 0
    /\ created = 0

\* the widgets at their defaults
Widgets(horizon) ==
    /\ chosen_site_id = ALL
    /\ start_date = Today - DEFAULT_DAYS
    /\ end_date = Today
    /\ checkbox = FALSE
    /\ days_out = horizon

\* no run of the script yet; dl is the daily frame held
NotRun(dl) ==
    /\ rendered = FALSE
    /\ df = <<>>
    /\ total_kwh = 0
    /\ emissions = BigZero
    /\ avg_kwh = [nan |-> FALSE, num |-> 0, den |-> 1]
    /\ daily = dl
    /\ asset_df = <<>>
    /\ top10 = <<>>
    /\ anomaly_records = <<>>
    /\ use_prophet = FALSE
    /\ forecast = [method |-> "none", called_prophet |-> FALSE, error |-> FALSE,
                   points |-> <<>>]

\* a session that has not run the script yet: the widgets will take their
\* defaults and nothing is computed
Session(coll, available, ix, at) ==
    Store(coll, available, ix, at) /\ Widgets(DEFAULT_HORIZON) /\ NotRun(<<>>)

-----------------------------------------------------------------------------
(* aggregation_queries.py: the sections of the script, in order *)

Unrun == <<telemetry, PROPHET_AVAILABLE, chosen_site_id, start_date, end_date,
           checkbox, use_prophet, days_out, rendered, df, total_kwh, emissions, avg_kwh,
           daily, asset_df, top10, anomaly_records, forecast, indexes, msg, presses,
           created>>

Query1 ==
    /\ pc = "q1"
    /\ result_total' = pipeline_total(telemetry)
    /\ pc' = "q2"
    /\ UNCHANGED <<Unrun, result_daily, result_emission, printed>>

\* sections 2, 3 and 5 print the per-asset sums, the average and the largest reading
Query2 == pc = "q2" /\ pc' = "q3"
          /\ UNCHANGED <<Unrun, result_total, result_daily, result_emission, printed>>

Query3 == pc = "q3" /\ pc' = "q4"
          /\ UNCHANGED <<Unrun, result_total, result_daily, result_emission, printed>>

Query4 ==
    /\ pc = "q4"
    /\ result_daily' = pipeline_daily(telemetry)
    /\ pc' = "q5"
    /\ UNCHANGED <<Unrun, result_total, result_emission, printed>>

Query5 == pc = "q5" /\ pc' = "q6"
          /\ UNCHANGED <<Unrun, result_total, result_daily, result_emission, printed>>

Query6 ==
    /\ pc = "q6"
    /\ \E summation \in Summations :
          result_emission' = pipeline_emission(telemetry, summation)
    /\ pc' = "q7"
    /\ UNCHANGED <<Unrun, result_total, result_daily, printed>>

Query7 ==
    /\ pc = "q7"
    /\ pc' = pipeline_geo(indexes).pc
    /\ printed' = pipeline_geo(indexes).printed
    /\ UNCHANGED <<Unrun, result_total, result_daily, result_emission>>

-----------------------------------------------------------------------------
(* Stored readings and collections the runs start from *)

Reading(t, a, vt, v) == [timestamp |-> t, asset_id |-> a, value_type |-> vt, value |-> v]

\* all sequences over U of length at most n
SeqsUpTo(U, n) == UNION {[1..k -> U] : k \in 0..n}

IndexSets == { {}, {[field |-> "location", kind |-> "2dsphere"]},
               {[field |-> "location", kind |-> "1"]} }

-----------------------------------------------------------------------------
(* The rollups of one loaded frame: SpecRollup *)

\* number of assets in the collections that have more assets than the chart shows
ManyAssets == 12

\* electricity readings on the stored days, one reading of another value type,
\* and one electricity reading whose timestamp is no time
RollupReadings ==
    {Reading(Timestamp(d, Midnight, Plain), av[1], ELECTRICITY, av[2]) :
        d \in 1..MaxDay, av \in {<<101, 1>>, <<101, 2>>, <<201, 2>>}}
    \cup {Reading(Timestamp(1, Midnight, Plain), 101, "water_L", 5),
          Reading(Timestamp(1, Midnight, Junk), 101, ELECTRICITY, 4)}

\* one electricity reading for each of ManyAssets assets, with scattered values
ManyAssetColl(k) ==
    [i \in 1..ManyAssets |->
        Reading(Timestamp(1, Midnight, Plain), 300 + i, ELECTRICITY, ((i * k) % 7) + 1)]

RollupColls == SeqsUpTo(RollupReadings, MaxRows) \cup {ManyAssetColl(k) : k \in {1, 3}}

InitRollup == \E coll \in RollupColls : Session(coll, FALSE, {}, "off")

NextRollup ==
    \/ Rerun
    \/ \E s \in {ALL} \cup Sites : SelectSite(s)

SpecRollup == InitRollup /\ [][NextRollup]_vars

\* positions of the electricity rows of a frame
ElecIdx(d) == {i \in 1..Len(d) : d[i].value_type = ELECTRICITY}

RECURSIVE SumAt(_, _)
\* sum of the values at the positions I of a frame
SumAt(d, I) ==
    IF I = {} THEN 0
    ELSE LET i == CHOOSE j \in I : TRUE IN d[i].value + SumAt(d, I \ {i})

\* C1: for the loaded frame, the total shown is the sum of the values of its
\* electricity readings, and 0 when the frame is empty or has none
C1_TotalIsElectricitySum ==
    rendered =>
        /\ total_kwh = SumAt(df, ElecIdx(df))
        /\ (ElecIdx(df) = {} => total_kwh = 0)

\* a frame with several electricity readings and a reading of another type
C1_Witness ==
    /\ rendered
    /\ Cardinality(ElecIdx(df)) >= 2
    /\ Cardinality(ElecIdx(df)) < Len(df)
    /\ total_kwh >= 3

\* a frame that holds readings, none of them electricity: the total is 0
C1_WitnessNoElectricity ==
    /\ rendered
    /\ df # <<>>
    /\ ElecIdx(df) = {}
    /\ total_kwh = 0

\* C2: the average is total / count when the count of electricity readings is
\* positive, and zero when the count is zero, also for a non-empty frame
C2_AverageIsTotalOverCount ==
    LET n == Cardinality(ElecIdx(df))
    IN  rendered =>
            /\ n > 0 => ~avg_kwh.nan /\ avg_kwh.num * n = total_kwh * avg_kwh.den
            /\ n = 0 => ~avg_kwh.nan /\ avg_kwh.num = 0

RECURSIVE SumDaily(_)
SumDaily(dl) == IF dl = <<>> THEN 0 ELSE dl[1].daily_kWh + SumDaily(Tail(dl))

\* C3: the daily sums add up to the total of the same frame, also when a
\* reading's ts is NaT, and the days come in ascending date order
C3_DailySumsToTotal ==
    rendered =>
        /\ SumDaily(daily) = total_kwh
        /\ \A i \in 1..Len(daily) - 1 : daily[i].date < daily[i + 1].date

\* C9: asset_df has one row per asset with an electricity reading, holding the
\* sum of that asset's electricity values, in non-increasing order of total;
\* the chart shows its first ten rows, which are ten largest totals
C9_AssetRollupSortedTop10 ==
    LET assets == {df[i].asset_id : i \in ElecIdx(df)}
    IN  /\ rendered \/ asset_df = <<>>
        /\ {asset_df[k].asset_id : k \in 1..Len(asset_df)} = assets
        /\ Len(asset_df) = Cardinality(assets)
        /\ \A k \in 1..Len(asset_df) :
              asset_df[k].total_kWh =
                  SumAt(df, {i \in ElecIdx(df) : df[i].asset_id = asset_df[k].asset_id})
        /\ \A k \in 1..Len(asset_df) - 1 :
              asset_df[k].total_kWh >= asset_df[k + 1].total_kWh
        /\ Len(top10) = Min(TOP_N, Len(asset_df))
        /\ \A k \in 1..Len(top10) : top10[k] = asset_df[k]
        /\ \A k \in 1..Len(top10) : \A j \in Len(top10) + 1..Len(asset_df) :
              top10[k].total_kWh >= asset_df[j].total_kWh

\* more than ten assets with unequal totals: the chart leaves some out
C9_Witness ==
    /\ rendered
    /\ Len(asset_df) > TOP_N
    /\ Len(top10) = TOP_N
    /\ top10[1].total_kWh > asset_df[Len(asset_df)].total_kWh
    /\ asset_df[1].asset_id # 301

-----------------------------------------------------------------------------
(* The anomaly table of one asset's readings: SpecAnomaly *)

\* longest run of readings of one asset that is enumerated in full
MaxGroup == 8

AtDay1(a, v) == Reading(Timestamp(1, Midnight, Plain), a, ELECTRICITY, v)

\* n readings of 10 followed by one reading of v, all of asset 101
Spike(n, v) == [i \in 1..n + 1 |-> AtDay1(101, IF i <= n THEN 10 ELSE v)]

\* asset 101 has seven readings of 10 and one of 50; asset 201 reads 50 throughout
TwoAssetColl == Spike(7, 50) \o [i \in 1..8 |-> AtDay1(201, 50)]

AnomalyColls ==
    {[i \in 1..Len(vs) |-> AtDay1(101, vs[i])] : vs \in SeqsUpTo({10, 50}, MaxGroup)}
    \cup {Spike(4, 50), Spike(4, 100), Spike(19, 200), TwoAssetColl}

InitAnomaly == \E coll \in AnomalyColls : Session(coll, FALSE, {}, "off")

NextAnomaly ==
    \/ Rerun
    \/ \E s \in {ALL} \cup Sites : SelectSite(s)

SpecAnomaly == InitAnomaly /\ [][NextAnomaly]_vars

RECURSIVE SumSqAt(_, _)
SumSqAt(d, I) ==
    IF I = {} THEN 0
    ELSE LET i == CHOOSE j \in I : TRUE IN d[i].value * d[i].value + SumSqAt(d, I \ {i})

\* the electricity rows of the frame that belong to the asset of row i
SameAsset(d, i) == {j \in ElecIdx(d) : d[j].asset_id = d[i].asset_id}

\* row i lies more than 2.5 standard deviations above the mean of its asset's
\* electricity rows: with n rows, sum S and sum of squares Q, the mean is S / n
\* and the squared population deviation is (n * Q - S * S) / (n * n)
ZAbove(d, i) ==
    LET I == SameAsset(d, i)
        n == Cardinality(I)
        S == SumAt(d, I)
        Q == SumSqAt(d, I)
    IN  IF n * Q = S * S
        THEN 2 * (n * d[i].value - S) > 5 * n
        ELSE /\ n * d[i].value > S
             /\ 4 * (n * d[i].value - S) * (n * d[i].value - S) > 25 * (n * Q - S * S)

ShouldFlag(d) == {i \in ElecIdx(d) : Cardinality(SameAsset(d, i)) >= 2 /\ ZAbove(d, i)}

\* C4: a reading is in the anomaly table iff its asset has at least two
\* electricity readings and its z-score, with the population deviation (1.0 when
\* that is zero), is above 2.5; nothing of [10,10,10,10,50] or [10,10,10,10,100]
\* is flagged, and the 200 among nineteen 10s is
C4_FlaggedIffZAbove ==
    rendered =>
        /\ {anomaly_records[k] : k \in 1..Len(anomaly_records)}
              = {AnomalyOf(df[i]) : i \in ShouldFlag(df)}
        /\ Len(anomaly_records) = Cardinality(ShouldFlag(df))
        /\ \A k \in 1..Len(anomaly_records) :
              Cardinality({i \in ElecIdx(df) :
                  df[i].asset_id = anomaly_records[k].asset_id}) >= 2
        /\ (chosen_site_id = ALL /\ telemetry \in {Spike(4, 50), Spike(4, 100)}
              => anomaly_records = <<>>)
        /\ (chosen_site_id = ALL /\ telemetry = Spike(19, 200)
              => anomaly_records = <<AnomalyOf(AtDay1(101, 200))>>)

\* the 200 among nineteen 10s is in the table
C4_Witness ==
    /\ rendered
    /\ telemetry = Spike(19, 200)
    /\ Len(df) = 20
    /\ anomaly_records = <<AnomalyOf(AtDay1(101, 200))>>

\* [10,10,10,10,50] has been scanned and nothing is in the table
C4_WitnessNoFlag ==
    /\ rendered
    /\ telemetry = Spike(4, 50)
    /\ Len(df) = 5
    /\ anomaly_records = <<>>

-----------------------------------------------------------------------------
(* simple_moving_average_forecast called on a series: SpecForecast *)

\* days a series of the forecast runs may cover: 1..MaxSeries
MaxSeries == 4

\* the daily frame with the dates D, in ascending order, and the values v
SeriesFrom(D, v) ==
    LET dates == SortAsc(D)
    IN  [i \in 1..Len(dates) |-> [date |-> dates[i], daily_kWh |-> v[i]]]

ForecastInputs ==
    UNION {{SeriesFrom(D, v) : v \in [1..Cardinality(D) -> {4, 5, 6}]} :
              D \in SUBSET (1..MaxSeries)}

InitForecast ==
    \E s \in ForecastInputs : \E n \in 1..MaxHorizon :
        Store(<<>>, FALSE, {}, "off") /\ Widgets(n) /\ NotRun(s)

\* wa = simple_moving_average_forecast(series, days_out=days_out, window=3)
CallForecast ==
    /\ forecast' = [method |-> "ma", called_prophet |-> FALSE, error |-> FALSE,
                    points |-> simple_moving_average_forecast(SeriesOf(daily), days_out,
                                                              MA_WINDOW)]
    /\ UNCHANGED <<telemetry, PROPHET_AVAILABLE, chosen_site_id, start_date, end_date,
                   checkbox, use_prophet, days_out, rendered, df, total_kwh, emissions,
                   avg_kwh, daily, asset_df, top10, anomaly_records, indexes, pc,
                   result_total, result_daily, result_emission, printed, msg, presses,
                   created>>

NextForecast == CallForecast

SpecForecast == InitForecast /\ [][NextForecast]_vars

RECURSIVE SumLast(_, _)
\* sum of the last m values of a daily frame
SumLast(dl, m) ==
    IF m = 0 THEN 0
    ELSE dl[Len(dl)].daily_kWh + SumLast(SubSeq(dl, 1, Len(dl) - 1), m - 1)

DailyValues(dl) == [i \in 1..Len(dl) |-> dl[i].daily_kWh]

\* C5: for a non-empty series the forecast has days_out points, on the days
\* after the last date of the series, each the mean of the last min(3, n)
\* values (5.0 for [4,6,5]); for an empty series the forecast is empty
C5_FlatTrailingMean ==
    forecast.method = "ma" =>
        LET n == Len(daily)
            m == Min(3, n)
            pts == forecast.points
        IN  /\ n = 0 => pts = <<>>
            /\ n > 0 =>
                  /\ Len(pts) = days_out
                  /\ \A i \in 1..Len(pts) :
                        /\ pts[i].date = daily[n].date + i
                        /\ ~pts[i].yhat.nan
                        /\ pts[i].yhat.num * m = pts[i].yhat.den * SumLast(daily, m)
            /\ DailyValues(daily) = <<4, 6, 5>> =>
                  \A i \in 1..Len(pts) : pts[i].yhat.num = 5 * pts[i].yhat.den

\* the forecast of a four-day series ending 4, 6, 5 has been computed
C5_Witness ==
    /\ forecast.method = "ma"
    /\ Len(daily) = 4
    /\ SubSeq(DailyValues(daily), 2, 4) = <<4, 6, 5>>
    /\ daily[1].daily_kWh # 5
    /\ Len(forecast.points) = days_out
    /\ days_out >= 2
    /\ forecast.points[2].yhat.num = 5 * forecast.points[2].yhat.den

\* the forecast of an empty series has been computed and is empty
C5_WitnessEmpty ==
    /\ forecast.method = "ma"
    /\ daily = <<>>
    /\ forecast.points = <<>>

-----------------------------------------------------------------------------
(* The forecast panel under the Prophet import and checkbox: SpecPanel *)

\* longest telemetry collection of the forecast panel runs
MaxPanelRows == 2

PanelReadings ==
    {Reading(Timestamp(d, Midnight, Plain), 101, ELECTRICITY, v) :
        d \in 1..MaxDay, v \in {1, 2}}

InitPanel ==
    \E coll \in SeqsUpTo(PanelReadings, MaxPanelRows) : \E available \in BOOLEAN :
        Session(coll, available, {}, "off")

NextPanel ==
    \/ Rerun
    \/ ToggleProphet
    \/ \E n \in 1..MaxHorizon : SetHorizon(n)

SpecPanel == InitPanel /\ [][NextPanel]_vars

\* C6: with a daily series and without Prophet, the panel shows the moving
\* average forecast and no error, whatever the checkbox holds; prophet_forecast
\* is called only when Prophet is available and the checkbox is ticked
C6_FallbackToMovingAverage ==
    rendered =>
        /\ (daily # <<>> /\ ~PROPHET_AVAILABLE) =>
              /\ forecast.method = "ma"
              /\ ~forecast.error
              /\ ~forecast.called_prophet
              /\ Len(forecast.points) = days_out
        /\ forecast.called_prophet => PROPHET_AVAILABLE /\ checkbox
        /\ forecast.error => forecast.called_prophet

\* a run without Prophet that drew the moving average for a chosen horizon
C6_Witness ==
    /\ rendered
    /\ ~PROPHET_AVAILABLE
    /\ daily # <<>>
    /\ days_out # DEFAULT_HORIZON
    /\ forecast.method = "ma"
    /\ Len(forecast.points) = days_out

\* a run with Prophet available and selected, which called prophet_forecast
C6_WitnessProphet ==
    /\ rendered
    /\ PROPHET_AVAILABLE
    /\ checkbox
    /\ forecast.called_prophet

-----------------------------------------------------------------------------
(* The frame loaded under the sidebar's site and date filters: Spec *)

\* longest telemetry collection of the filter runs
MaxStored == 2

\* readings of assets of two sites, at the first and the last second of a day,
\* written with and without a fraction of a second
FilterReadings ==
    {Reading(Timestamp(d, s, x), a, ELECTRICITY, 1) :
        d \in 1..MaxDay, s \in {Midnight, LastSecond}, x \in {Plain, Fraction},
        a \in {101, 201}}

Init == \E coll \in SeqsUpTo(FilterReadings, MaxStored) : Session(coll, FALSE, {}, "off")

Next ==
    \/ Rerun
    \/ \E s \in {ALL} \cup Sites : SelectSite(s)
    \/ \E d \in 1..MaxDay : SetStartDate(d)
    \/ \E d \in 1..MaxDay : SetEndDate(d)

Spec == Init /\ [][Next]_vars

\* the instant a stored timestamp names, as (day, second, microsecond)
InstantOf(t) == [day |-> t.day, tod |-> t.tod, micro |-> IF t.sfx = Fraction THEN 500000 ELSE 0]

\* a <= b for two instants
InstantLeq(a, b) ==
    \/ a.day < b.day
    \/ a.day = b.day /\ a.tod < b.tod
    \/ a.day = b.day /\ a.tod = b.tod /\ a.micro <= b.micro

\* the reading belongs to the selected site and lies in [start_dt, end_dt]
Selected(r) ==
    /\ chosen_site_id # ALL =>
          \E a \in Assets : a.asset_id = r.asset_id /\ a.site_id = chosen_site_id
    /\ InstantLeq(combine(start_date, Midnight, 0), InstantOf(r.timestamp))
    /\ InstantLeq(InstantOf(r.timestamp), combine(end_date, LastSecond, 999999))

Stored(row) == Reading(row.timestamp, row.asset_id, row.value_type, row.value)

\* C7: the frame holds exactly the stored readings of the selected site's
\* assets whose timestamp lies in [start, end]: none for a site without
\* assets, and all readings of the date range for "All"
C7_FrameIsSiteAndRange ==
    rendered =>
        [i \in 1..Len(df) |-> Stored(df[i])] = SelectSeq(telemetry, Selected)

-----------------------------------------------------------------------------
(* The aggregation script next to a dashboard session on the same store:   *)
(* SpecQueries                                                             *)

\* longest telemetry collection of the script runs
MaxDocs == 3

\* electricity readings of today, and one reading of another value type
EmissionReadings ==
    {Reading(Timestamp(Today, Midnight, Plain), 101, ELECTRICITY, v) : v \in {0, 1, 6, 100}}
    \cup {Reading(Timestamp(Today, Midnight, Plain), 101, "water_L", 5)}

InitQueries ==
    \E coll \in SeqsUpTo(EmissionReadings, MaxDocs), ix \in IndexSets :
        Session(coll, FALSE, ix, "q1")

NextQueries ==
    \/ Rerun
    \/ Query1
    \/ Query2
    \/ Query3
    \/ Query4
    \/ Query5
    \/ Query6
    \/ Query7

SpecQueries == InitQueries /\ [][NextQueries]_vars

\* C8: when $geoNear is run without a 2dsphere index on location, the failure
\* is caught where the query is made and the message naming the 2dsphere
\* index is printed: the script never ends in an exception, it ends normally
C8_GeoFailureCaught ==
    /\ pc # "crashed"
    /\ pc = "done" /\ GeoNearFails(indexes) => printed = GEO_MESSAGE
    /\ pc = "done" /\ ~GeoNearFails(indexes) => printed # GEO_MESSAGE

C8_Witness ==
    /\ pc = "done"
    /\ indexes = {[field |-> "location", kind |-> "1"]}
    /\ printed = GEO_MESSAGE

C8_WitnessNoIndex == pc = "done" /\ indexes = {} /\ printed = GEO_MESSAGE

RECURSIVE SubBorrow(_, _, _, _)
SubBorrow(x, y, i, borrow) ==
    IF i > Len(x) THEN <<>>
    ELSE LET p == x[i] - y[i] - borrow
         IN  <<(p + LimbBase) % LimbBase>>
                 \o SubBorrow(x, y, i + 1, IF p < 0 THEN 1 ELSE 0)

\* |x - y| of two figures
BigDist(x, y) == IF BigLeq(y, x) THEN SubBorrow(x, y, 1, 0) ELSE SubBorrow(y, x, 1, 0)

\* the unit in the last place of a double
Ulp(x) == [BigZero EXCEPT ![1] = Pow2(Max(0, BitLength(x) - MantissaBits))]

\* the double d is a nearest double of the exact figure x
NearestDouble(d, x) ==
    /\ d[1] % Ulp(d)[1] = 0
    /\ BigLeq(BigMulSmall(2, BigDist(d, x)), Ulp(x))

\* the script and the dashboard have both computed over all stored readings
BothComputed ==
    /\ rendered
    /\ pc \in {"q7", "done"}
    /\ [i \in 1..Len(df) |-> Stored(df[i])] = telemetry

EIGHTY_TWO == <<0, 0, 0, 20992, 0>>

\* C10 as stated: over the same readings, with an electricity reading among
\* them, the pipeline's total_kgCO2 is the same figure as the dashboard's
\* emissions
C10_PipelineSameFigure ==
    BothComputed /\ MatchElectricity(telemetry) # <<>> =>
        /\ Len(result_emission) = 1
        /\ result_emission[1].total_kgCO2 = emissions

\* C10 (amended): the emission figure is the double nearest to total * 0.82
\* (82.0 for a total of 100, 0 for a total of 0).  Over the same readings the
\* pipeline returns no document when there is no electricity reading, the
\* dashboard's figure when there is one electricity reading, and for n >= 2
\* electricity readings a figure within 2n units in the last place of it
C10_EmissionFigures ==
    /\ rendered =>
          /\ NearestDouble(emissions, BigMulSmall(total_kwh, FACTOR))
          /\ total_kwh = 100 => emissions = EIGHTY_TWO
          /\ total_kwh = 0 => emissions = BigZero
    /\ BothComputed =>
          LET n == Len(MatchElectricity(telemetry))
          IN  /\ n = 0 => result_emission = <<>> /\ emissions = BigZero
              /\ n >= 1 =>
                    /\ Len(result_emission) = 1
                    /\ LET p == result_emission[1].total_kgCO2
                           larger == IF BigLeq(p, emissions) THEN emissions ELSE p
                       IN  /\ BigLeq(BigDist(p, emissions), BigMulSmall(2 * n, Ulp(larger)))
                           /\ n = 1 => p = emissions

\* the two figures differ in the last place
C10_Witness ==
    /\ BothComputed
    /\ Len(result_emission) = 1
    /\ result_emission[1].total_kgCO2 # emissions

C10_WitnessHundred ==
    /\ BothComputed
    /\ total_kwh = 100
    /\ result_emission = <<[total_kgCO2 |-> EIGHTY_TWO]>>

C10_WitnessNoElectricity ==
    BothComputed /\ telemetry # <<>> /\ result_emission = <<>> /\ emissions = BigZero

-----------------------------------------------------------------------------
(* The index button of the sidebar: SpecIndex *)

\* index sets of service_providers a session can find: none, the 2dsphere
\* index, an ascending index on location, and each with an index on name
IndexChoices ==
    IndexSets \cup {ix \cup {[field |-> "name", kind |-> "1"]} : ix \in IndexSets}

IndexReadings ==
    {Reading(Timestamp(Today, Midnight, Plain), a, ELECTRICITY, 1) : a \in {101, 201}}

InitIndex ==
    \E coll \in SeqsUpTo(IndexReadings, 1), ix \in IndexChoices :
        Session(coll, FALSE, ix, "off")

NextIndex ==
    \/ Rerun
    \/ PressCreateIndex
    \/ \E s \in {ALL} \cup Sites : SelectSite(s)

SpecIndex == InitIndex /\ [][NextIndex]_vars

Has2dsphere(ix) == \E i \in ix : i.field = "location" /\ i.kind = "2dsphere"

\* C11: whatever indexes service_providers starts with and however often the
\* button is pressed, after each call of create_2dsphere_index a 2dsphere
\* index on location exists, and at most one index is created over all calls
C11_IndexExistsAfterCall ==
    /\ presses > 0 => Has2dsphere(indexes)
    /\ created <= 1

\* the parts of C11 that hold: an index is created only when no 2dsphere index
\* existed, at most once, and a call that reports "already exists" changes nothing
C11_CreatedAtMostOnce ==
    [][/\ created <= 1 /\ created' <= 1
       /\ indexes' # indexes =>
             ~Has2dsphere(indexes) /\ indexes' = indexes \cup {LOCATION_2DSPHERE}
                                   /\ msg' = "2dsphere index created"
       /\ presses' # presses /\ msg' = "2dsphere index already exists" =>
             indexes' = indexes]_vars

====
